---- MODULE Spec2Model ----
(***************************************************************************)
(* softstat: per-process pressure on the file-descriptor and task limits.  *)
(*                                                                         *)
(* The model follows src/softstat.go.  That file holds three revisions of  *)
(* the program one after the other; the CalcBound-based main is the first  *)
(* (lines 15-312), and the nested min helper is the third (lines 612-904). *)
(*                                                                         *)
(* Numbers.  The program computes with uint64 and float64.  The model      *)
(* keeps both formats and scales their widths: a word has WordBits bits    *)
(* (64 in the program) and a float has MantBits bits of precision (53 in   *)
(* the program), with round-to-nearest-even on every conversion, product   *)
(* and quotient, so that everything a rounding does in the program, among  *)
(* it float64(math.MaxUint64) = 2^64, happens in the model at the scaled   *)
(* magnitudes.                                                             *)
(***************************************************************************)
EXTENDS Integers, Sequences, FiniteSets, TLC

\* ------------------------------------------------------------------ bounds

\* Bits of an unsigned word of the model (the program's uint64 has 64).
WordBits == 8

\* Bits of precision of a float of the model (the program's float64 has 53).
MantBits == 7

\* Usage counts and concrete ceilings range over 0..MaxCount.
MaxCount == 2

\* Longest metric sequence handed to CalcBound in SpecCalc.
MaxMetrics == 2

\* Entries of /proc that the glob of TasksInit returns.
NumPids == 2

\* ----------------------------------------------------------------- numbers

Pow2(k) == 2 ^ k

\* math.MaxUint64, the "unlimited" sentinel (RLIM_INFINITY).
MaxUint64 == Pow2(WordBits) - 1

RECURSIVE BitLen(_)
BitLen(n) == IF n = 0 THEN 0 ELSE 1 + BitLen(n \div 2)

\* A float is (-1)^neg * m * 2^e with m = 0 (zero) or MantBits bits long.
FZero == [neg |-> FALSE, m |-> 0, e |-> 0]

\* The float nearest to n * 2^e (n a natural; sticky: the true value lies
\* strictly between n * 2^e and (n+1) * 2^e), ties to even.
RoundNE(n, e, sticky) ==
    IF n = 0 THEN FZero
    ELSE LET len == BitLen(n) IN
         IF len <= MantBits
         THEN [neg |-> FALSE, m |-> n * Pow2(MantBits - len), e |-> e - (MantBits - len)]
         ELSE LET s    == len - MantBits
                  q    == n \div Pow2(s)
                  r    == n % Pow2(s)
                  half == Pow2(s - 1)
                  up   == r > half \/ (r = half /\ (sticky \/ q % 2 = 1))
                  q2   == IF up THEN q + 1 ELSE q
              IN IF q2 = Pow2(MantBits)
                 THEN [neg |-> FALSE, m |-> Pow2(MantBits - 1), e |-> e + s + 1]
                 ELSE [neg |-> FALSE, m |-> q2, e |-> e + s]

\* float64(v) of an unsigned word.
FromUint(v) == RoundNE(v, 0, FALSE)

\* x * y and x / y of non-negative floats, each rounded once.
FMul(x, y) == RoundNE(x.m * y.m, x.e + y.e, FALSE)

FDiv(x, y) ==
    IF x.m = 0 THEN FZero
    ELSE LET n == x.m * Pow2(MantBits + 2) IN
         RoundNE(n \div y.m, x.e - y.e - (MantBits + 2), n % y.m # 0)

\* x < y on the magnitudes of two floats.
MagLt(x, y) ==
    IF y.m = 0 THEN FALSE
    ELSE IF x.m = 0 THEN TRUE
    ELSE x.e < y.e \/ (x.e = y.e /\ x.m < y.m)

\* x > y.
FGt(x, y) ==
    IF x.m = 0 /\ y.m = 0 THEN FALSE
    ELSE IF x.neg /\ ~y.neg THEN FALSE
    ELSE IF ~x.neg /\ y.neg THEN TRUE
    ELSE IF x.neg THEN MagLt(x, y)
    ELSE MagLt(y, x)

\* The literals 100.0 and -1.0 of CalcBound.
F100 == FromUint(100)

FNeg1 == [neg |-> TRUE, m |-> Pow2(MantBits - 1), e |-> 0 - (MantBits - 1)]

\* --------------------------------------------------------------- CalcBound

\* "b.p = -1.0" on the zero Boundary.
InitBoundaryZeroP == [by |-> "", v |-> 0, max |-> 0, p |-> FZero]

InitBoundary == [by |-> "", v |-> 0, max |-> 0, p |-> FNeg1]

\* The percentage of one metric: the if/else inside CalcBound's loop.
PercentZeroCeilingIsZero(res) ==
    IF res.max <= 0 THEN FZero
    ELSE FDiv(FMul(F100, FromUint(res.v)), FromUint(res.max))

PercentUnlimitedIsZero(res) ==
    IF res.max <= 0 THEN F100
    ELSE IF res.max = MaxUint64 THEN FZero
    ELSE FDiv(FMul(F100, FromUint(res.v)), FromUint(res.max))

PercentTruncated(res) ==
    IF res.max <= 0 THEN F100
    ELSE FromUint((100 * res.v) \div res.max)

Percent(res) ==
    IF res.max <= 0 THEN F100
    ELSE FDiv(FMul(F100, FromUint(res.v)), FromUint(res.max))

\* Percent, tabulated over every sample of two words (@@ makes the table an
\* explicit function, computed once).
PercentOf == [res \in [v : 0 .. MaxUint64, max : 0 .. MaxUint64] |-> Percent(res)] @@ <<>>

\* One iteration of CalcBound's loop on metric mt.
CalcBoundStepGeq(b, mt) ==
    LET p == PercentOf[mt.res] IN
    IF ~FGt(b.p, p)
    THEN [by |-> mt.name, v |-> mt.res.v, max |-> mt.res.max, p |-> p]
    ELSE b

CalcBoundStepMin(b, mt) ==
    LET p == PercentOf[mt.res] IN
    IF b.p.neg \/ FGt(b.p, p)
    THEN [by |-> mt.name, v |-> mt.res.v, max |-> mt.res.max, p |-> p]
    ELSE b

CalcBoundStep(b, mt) ==
    LET p == PercentOf[mt.res] IN
    IF FGt(p, b.p)
    THEN [by |-> mt.name, v |-> mt.res.v, max |-> mt.res.max, p |-> p]
    ELSE b

\* The loop from index i on with b as it stands.  The Boundary after the
\* iteration is bound as a value (nb) before the loop goes on, so that it is
\* computed once per iteration however the formula is evaluated.
RECURSIVE CalcBoundFrom(_, _, _)
CalcBoundFrom(b, m, i) ==
    IF i > Len(m) THEN b
    ELSE CHOOSE r \in {CalcBoundFrom(nb, m, i + 1) : nb \in {CalcBoundStep(b, m[i])}} : TRUE

CalcBound(m) == CalcBoundFrom(InitBoundary, m, 1)

\* ------------------------------------------------------------------- state

VARIABLES
    \* main of the CalcBound revision (softstat.go:257-312)
    err,            \* what main panicked with, "" while it has not
    pc,             \* where main stands
    scan,           \* TasksInit: index of the next /proc entry
    tasks,          \* *Tasks: [pids: sequence of Task, total]
    byUid,          \* the map every Task.UidMap refers to
    procTotalLimit, \* /proc/sys/kernel/threads-max
    fileTotal,      \* /proc/sys/fs/file-nr, field 0
    fileMax,        \* /proc/sys/fs/file-nr, field 2
    filePerProcMax, \* /proc/sys/fs/nr_open
    ev,             \* main's loop: index of the next task
    out,            \* []OutputEntry
    nLines,         \* the row count of the command line
    stdout,         \* what has been written, line by line
    procStatus,     \* per pid, what /proc/<pid>/status held when TasksInit read it
    failed,         \* pids one of whose per-process reads has failed
    \* a call of CalcBound on its own (softstat.go:135-152)
    cm,             \* the argument m
    ci,             \* the loop index i (1-based)
    cb,             \* the result b
    cps,            \* the percentages p computed so far, one per iteration
    cst,            \* "loop" while in the loop, "returned" after the return
    \* the effective ceilings of the min revision (softstat.go:842, 857)
    lim,            \* the inputs [cur, fileMax, perProc, nproc, threadsMax]
    fdsMaxPerProc,
    nProcLimit,
    lst             \* "start", then "resolved"

mainVars == <<pc, err, scan, tasks, byUid, procTotalLimit, fileTotal, fileMax,
              filePerProcMax, ev, out, nLines, stdout, procStatus, failed>>
calcVars == <<cm, ci, cb, cps, cst>>
ceilVars == <<lim, fdsMaxPerProc, nProcLimit, lst>>
vars == <<mainVars, calcVars, ceilVars>>

\* ------------------------------------------- CalcBound, called on its own

\* Metric names by position, so that equal samples stay distinguishable.
MetricNames == <<"A", "B", "C", "D">>

\* Usage counts: small ones, the last two below ExactBelow, and two neighbours
\* that float64 cannot tell apart (2^53 and 2^53 + 1 in the program).
ExactBelow == Pow2(MantBits - 3)

CalcValues ==
    (0 .. MaxCount) \cup {ExactBelow - 1, ExactBelow}
                    \cup {Pow2(MantBits), Pow2(MantBits) + 1}

CalcCeilings == (0 .. MaxCount) \cup {MaxUint64}

Entries == [v : CalcValues, max : CalcCeilings]

\* The []Metric whose samples are r.
Metrics(r) == [i \in DOMAIN r |-> [name |-> MetricNames[i], res |-> r[i]]]

CalcIdle ==
    /\ cm = <<>> /\ ci = 0 /\ cb = InitBoundary /\ cps = <<>> /\ cst = "idle"

CalcInit ==
    /\ \E n \in 0 .. MaxMetrics : \E r \in [1 .. n -> Entries] : cm = Metrics(r)
    /\ ci = 1
    /\ cb = InitBoundary
    /\ cps = <<>>
    /\ cst = "loop"

\* One pass through the body of "for i := 0; i < len(m); i++".
CalcIter ==
    /\ cst = "loop"
    /\ ci <= Len(cm)
    /\ cps' = Append(cps, Percent(cm[ci].res))
    /\ cb' = CalcBoundStep(cb, cm[ci])
    /\ ci' = ci + 1
    /\ UNCHANGED <<cm, cst>>

\* The loop condition fails and the bare "return" hands b back.
CalcReturn ==
    /\ cst = "loop"
    /\ ci > Len(cm)
    /\ cst' = "returned"
    /\ UNCHANGED <<cm, ci, cb, cps>>

\* --------------------------------------- the effective ceilings (min helper)

\* func min(p1, p2 uint64) uint64
minGt(p1, p2) == IF p1 > p2 THEN p1 ELSE p2

min(p1, p2) == IF p1 < p2 THEN p1 ELSE p2

CeilIdle ==
    /\ lim = [cur |-> 0, fileMax |-> 0, perProc |-> 0, nproc |-> 0, threadsMax |-> 0]
    /\ fdsMaxPerProc = 0 /\ nProcLimit = 0 /\ lst = "idle"

CeilInit ==
    /\ lim \in [cur : CalcCeilings, fileMax : CalcCeilings, perProc : CalcCeilings,
                nproc : {1, MaxUint64}, threadsMax : {1, MaxUint64}]
    /\ fdsMaxPerProc = 0
    /\ nProcLimit = 0
    /\ lst = "start"

\* fdsMaxPerProc := min(min(limits.openFiles.Cur, fileMax), filePerProcMax)
ResolveFds ==
    /\ lst = "start"
    /\ fdsMaxPerProc' = min(min(lim.cur, lim.fileMax), lim.perProc)
    /\ lst' = "fds"
    /\ UNCHANGED <<lim, nProcLimit>>

\* nProcLimit := min(limits.nProc.Cur, ProcTotalLimit())
ResolveNproc ==
    /\ lst = "fds"
    /\ nProcLimit' = min(lim.nproc, lim.threadsMax)
    /\ lst' = "resolved"
    /\ UNCHANGED <<lim, fdsMaxPerProc>>

\* ------------------------------------------------------------- formatting

Digit(d) == SubSeq("0123456789", d + 1, d + 1)

\* strconv.FormatUint(n, 10), and fmt's %d of an unsigned word.
RECURSIVE FormatUint(_)
FormatUint(n) == IF n < 10 THEN Digit(n) ELSE FormatUint(n \div 10) \o Digit(n % 10)

\* fmt's %2.1f: one digit after the point, the exact value rounded half-even.
FormatF1(x) ==
    LET t == IF x.e >= 0 THEN 10 * x.m * Pow2(x.e)
             ELSE LET d == Pow2(0 - x.e)
                      q == (10 * x.m) \div d
                      r == (10 * x.m) % d
                  IN IF 2 * r > d \/ (2 * r = d /\ q % 2 = 1) THEN q + 1 ELSE q
    IN (IF x.neg THEN "-" ELSE "") \o FormatUint(t \div 10) \o "." \o Digit(t % 10)

\* ---------------------------------------------------------- the environment

\* filepath.Glob("/proc/[0-9]*"), in the order Glob returns it.
Procs == [i \in 1 .. NumPids |-> FormatUint(i)]

Uids == {"0", "1000"}

\* Threads: of a status file.
ThreadCounts == 1 .. MaxCount

\* Entries of /proc/<pid>/fd.
FdCounts == {MaxCount}

\* Soft limits prlimit64 reports: a concrete one or RLIM_INFINITY.
RlimValues == {MaxCount + 1, MaxUint64}

\* /proc/sys/kernel/threads-max.
ThreadsMaxValues == {NumPids * MaxCount}

\* /proc/sys/fs/file-nr: fields 0 and 2.
FileNrValues == {<<1, 2 * MaxCount>>}

\* /proc/sys/fs/nr_open.
NrOpenValues == {2 * MaxCount}

\* /proc/<pid>/comm once trimmed.
Comm(pid) == "cmd" \o pid

\* The default of the flag -n.
DefaultLines == 10

\* Command lines (os.Args[1:]): no argument, the sole argument "-1", and -n
\* with a row count.
ArgVectors == {<<>>, <<"-1">>, <<"-n", "-1">>, <<"-n", "0">>, <<"-n", "1">>}

\* fmt's %d of an int, and the int that flag.IntVar reads back from it.
FormatInt(n) == IF n < 0 THEN "-" \o FormatUint(0 - n) ELSE FormatUint(n)

Atoi(str) == CHOOSE n \in (0 - DefaultLines) .. DefaultLines : FormatInt(n) = str

\* Lines 258-264: nLines as main derives it from the command line.
ParseArgs(args) ==
    IF Len(args) = 1 /\ args[1] = "-1" THEN -1
    ELSE IF Len(args) = 2 /\ args[1] = "-n" THEN Atoi(args[2])
    ELSE DefaultLines

\* Row counts the command line can ask for.
NLinesValues == {ParseArgs(a) : a \in ArgVectors}

\* uint64 addition.
AddUint64One(a, b) == (a + 1) % Pow2(WordBits)

AddUint64(a, b) == (a + b) % Pow2(WordBits)

\* ------------------------------------------------------------- GetLimits

\* What GetLimits(pid) returns: the limits and whether err is non-nil.  rlim
\* is zero before the first Prlimit and keeps what the first call wrote when
\* the second fails.
GetLimitsResults ==
    {[limits |-> [openFiles |-> 0, nProc |-> 0], err |-> TRUE]}
    \cup {[limits |-> [openFiles |-> o, nProc |-> o], err |-> TRUE] : o \in RlimValues}
    \cup {[limits |-> [openFiles |-> o, nProc |-> n], err |-> FALSE] :
             o \in RlimValues, n \in RlimValues}

\* ------------------------------------------------------------- TasksInit

\* One pass through the body of "for _, p := range procs".  Glob's pattern is
\* well formed, so its only error (ErrBadPattern) cannot occur; a status file
\* the kernel wrote has its Uid: and Threads: lines, so a failure of getStatus
\* is an error it returns.
ScanPid ==
    /\ pc = "TasksInit"
    /\ LET pid == Procs[scan] IN
       \/ \* getStatus fails: continue
          /\ failed' = failed \cup {pid}
          /\ UNCHANGED <<tasks, byUid, procStatus>>
       \/ \E uid \in Uids, threads \in ThreadCounts, l \in GetLimitsResults :
             /\ byUid' = [byUid EXCEPT ![uid] = AddUint64(@, threads)]
             /\ tasks' = [pids  |-> Append(tasks.pids, [pid |-> pid, limits |-> l.limits]),
                          total |-> AddUint64(tasks.total, threads)]
             /\ procStatus' = [procStatus EXCEPT ![pid] = [uid |-> uid, threads |-> threads]]
             /\ failed' = IF l.err THEN failed \cup {pid} ELSE failed
    /\ scan' = scan + 1
    /\ pc' = IF scan = NumPids THEN "ProcTotalLimit" ELSE "TasksInit"
    /\ UNCHANGED <<err, procTotalLimit, fileTotal, fileMax, filePerProcMax, ev, out,
                   nLines, stdout>>

\* ------------------------------------------------- the system-wide ceilings

ProcTotalLimit ==
    /\ pc = "ProcTotalLimit"
    /\ \/ \* the read or the parse fails: panic(err)
          /\ pc' = "panic"
          /\ err' = "threads-max"
          /\ UNCHANGED procTotalLimit
       \/ \E x \in ThreadsMaxValues :
             /\ procTotalLimit' = x
             /\ pc' = "FileNr"
             /\ UNCHANGED err
    /\ UNCHANGED <<scan, tasks, byUid, fileTotal, fileMax, filePerProcMax, ev, out,
                   nLines, stdout, procStatus, failed>>

FileNr ==
    /\ pc = "FileNr"
    /\ \/ \* the read fails, or a field is missing or no number: panic
          /\ pc' = "panic"
          /\ err' = "file-nr"
          /\ UNCHANGED <<fileTotal, fileMax>>
       \/ \E x \in FileNrValues :
             /\ fileTotal' = x[1]
             /\ fileMax' = x[2]
             /\ pc' = "FilePerProcMax"
             /\ UNCHANGED err
    /\ UNCHANGED <<scan, tasks, byUid, procTotalLimit, filePerProcMax, ev, out,
                   nLines, stdout, procStatus, failed>>

FilePerProcMaxGoesOn ==
    /\ pc = "FilePerProcMax"
    /\ \/ /\ pc' = "Evaluate"
          /\ err' = "nr_open"
          /\ UNCHANGED filePerProcMax
       \/ \E x \in NrOpenValues :
             /\ filePerProcMax' = x
             /\ pc' = "Evaluate"
             /\ UNCHANGED err
    /\ UNCHANGED <<scan, tasks, byUid, procTotalLimit, fileTotal, fileMax, ev, out,
                   nLines, stdout, procStatus, failed>>

FilePerProcMax ==
    /\ pc = "FilePerProcMax"
    /\ \/ \* the read or the parse fails: panic(err)
          /\ pc' = "panic"
          /\ err' = "nr_open"
          /\ UNCHANGED filePerProcMax
       \/ \E x \in NrOpenValues :
             /\ filePerProcMax' = x
             /\ pc' = "Evaluate"
             /\ UNCHANGED err
    /\ UNCHANGED <<scan, tasks, byUid, procTotalLimit, fileTotal, fileMax, ev, out,
                   nLines, stdout, procStatus, failed>>

\* ----------------------------------------------------- main's loop over tasks

\* Task.FdsRlim: (Entry, err != nil).
FdsRlimResults(t) ==
    {[e |-> [v |-> 0, max |-> 0], err |-> TRUE]}
    \cup {[e |-> [v |-> n, max |-> t.limits.openFiles], err |-> FALSE] : n \in FdCounts}

\* Task.NprocRlim: (Entry, err != nil).  The status file names the uid it
\* named when TasksInit read it.
NprocRlimResultsOwn(t) ==
    {[e |-> [v |-> 0, max |-> 0], err |-> TRUE],
     [e |-> [v |-> procStatus[t.pid].threads, max |-> t.limits.nProc], err |-> FALSE]}

NprocRlimResults(t) ==
    {[e |-> [v |-> 0, max |-> 0], err |-> TRUE],
     [e |-> [v |-> byUid[procStatus[t.pid].uid], max |-> t.limits.nProc], err |-> FALSE]}

\* CmdName: (string, err != nil).
CmdNameResults(pid) ==
    {[cmd |-> "", err |-> TRUE], [cmd |-> Comm(pid), err |-> FALSE]}

\* The three system-wide metrics main appends for CalcBound.
AddsOwnLimit(m) ==
    << [name |-> "threads-max", res |-> [v |-> tasks.total, max |-> procTotalLimit]],
       [name |-> "file-max", res |-> [v |-> fileTotal, max |-> fileMax]],
       [name |-> "file-perproc-max", res |-> [v |-> m[1].res.v, max |-> m[1].res.max]] >>

Adds(m) ==
    << [name |-> "threads-max", res |-> [v |-> tasks.total, max |-> procTotalLimit]],
       [name |-> "file-max", res |-> [v |-> fileTotal, max |-> fileMax]],
       [name |-> "file-perproc-max", res |-> [v |-> m[1].res.v, max |-> filePerProcMax]] >>

\* OutputEntry{pid.pid, m, CalcBound(append(m, adds...)), cmd}: m has length
\* and capacity 2, so append copies and data keeps the two metrics of m.
OutputEntryAll(pid, m, cmd) ==
    [pid |-> pid, data |-> m \o Adds(m), bound |-> CalcBound(m \o Adds(m)), cmd |-> cmd]

OutputEntry(pid, m, cmd) ==
    [pid |-> pid, data |-> m, bound |-> CalcBound(m \o Adds(m)), cmd |-> cmd]

\* One pass through the body of "for _, pid := range tasks.pids".
EvalPidRetry ==
    /\ pc = "Evaluate"
    /\ ev <= Len(tasks.pids)
    /\ LET t == tasks.pids[ev] IN
       \E fd \in FdsRlimResults(t), np \in NprocRlimResults(t), c \in CmdNameResults(t.pid) :
          LET m == << [name |-> "fds-rlim", res |-> fd.e],
                      [name |-> "nproc-rlim", res |-> np.e] >>
          IN /\ out' = Append(out, OutputEntry(t.pid, m, c.cmd))
             /\ failed' = IF fd.err \/ np.err \/ c.err
                          THEN failed \cup {t.pid} ELSE failed
             /\ ev' = IF fd.err /\ Len(out) < NumPids THEN ev ELSE ev + 1
    /\ UNCHANGED <<pc, err, scan, tasks, byUid, procTotalLimit, fileTotal, fileMax,
                   filePerProcMax, nLines, stdout, procStatus>>

EvalPid ==
    /\ pc = "Evaluate"
    /\ ev <= Len(tasks.pids)
    /\ LET t == tasks.pids[ev] IN
       \E fd \in FdsRlimResults(t), np \in NprocRlimResults(t), c \in CmdNameResults(t.pid) :
          LET m == << [name |-> "fds-rlim", res |-> fd.e],
                      [name |-> "nproc-rlim", res |-> np.e] >>
          IN /\ out' = Append(out, OutputEntry(t.pid, m, c.cmd))
             /\ failed' = IF fd.err \/ np.err \/ c.err
                          THEN failed \cup {t.pid} ELSE failed
    /\ ev' = ev + 1
    /\ UNCHANGED <<pc, err, scan, tasks, byUid, procTotalLimit, fileTotal, fileMax,
                   filePerProcMax, nLines, stdout, procStatus>>

\* ------------------------------------------------------------ the print code

\* The less function handed to sort.Slice.
LessAscending(a, b) == FGt(b.bound.p, a.bound.p)

Less(a, b) == FGt(a.bound.p, b.bound.p)

Reorderings(n) == {f \in [1 .. n -> 1 .. n] : \A i, j \in 1 .. n : i # j => f[i] # f[j]}

\* A sort that writes elements over one another instead of swapping them.
SortSliceCopies(s) ==
    {r \in {[i \in 1 .. Len(s) |-> s[f[i]]] : f \in [1 .. Len(s) -> 1 .. Len(s)]} :
        \A i, j \in 1 .. Len(s) : i < j => ~Less(r[j], r[i])}

\* sort.Slice(s, less): s reordered so that no element is less than one before
\* it.  "The sort is not guaranteed to be stable": every such order is a result.
SortSliceResults(s) ==
    {r \in {[i \in 1 .. Len(s) |-> s[f[i]]] : f \in Reorderings(Len(s))} :
        \A i, j \in 1 .. Len(s) : i < j => ~Less(r[j], r[i])}

\* The cell of a limit in the per-metric columns.
MaxSRaw(max) == FormatUint(max)

MaxS(max) == IF max # MaxUint64 THEN FormatUint(max) ELSE "-1"

\* The cells of one row, each as written before its tab.
Row(o) ==
    <<o.pid>>
    \o <<FormatUint(o.data[1].res.v), MaxS(o.data[1].res.max)>>
    \o <<FormatUint(o.data[2].res.v), MaxS(o.data[2].res.max)>>
    \o <<o.bound.by, FormatUint(o.bound.v), FormatUint(o.bound.max), FormatF1(o.bound.p)>>
    \o <<o.cmd>>

Header == <<"PID", "FD", "FD-RL", "TSK", "TSK-RL", "BOUND", "VAL", "MAX", "%USE", "CMD">>

Summary ==
    << <<"Tasks " \o FormatUint(tasks.total) \o ", system max is "
            \o FormatUint(procTotalLimit)>>,
       <<"File descriptors open " \o FormatUint(fileTotal)
            \o ", system max total is " \o FormatUint(fileMax)
            \o ", system max per process is " \o FormatUint(filePerProcMax)>> >>

\* The rows of "for i := 0; i < nLines && i < len(out); i++".
RowsAll(s, n) == [i \in 1 .. Len(s) |-> Row(s[i])]

Rows(s, n) == [i \in 1 .. (IF n < Len(s) THEN n ELSE Len(s)) |-> Row(s[i])]

\* Lines 288-311: the summary, the header, sort.Slice, the rows, Flush.  The
\* summary goes to os.Stdout at once; the header and the rows reach it when
\* the tabwriter is flushed, and main panics when that fails.
Report ==
    /\ pc = "Evaluate"
    /\ ev > Len(tasks.pids)
    /\ \E ranked \in SortSliceResults(out) :
          /\ out' = ranked
          /\ nLines' = IF nLines = -1 THEN Len(out) ELSE nLines
          /\ \/ /\ stdout' = Summary \o <<Header>> \o Rows(ranked, nLines')
                /\ pc' = "done"
                /\ UNCHANGED err
             \/ /\ stdout' = Summary
                /\ pc' = "panic"
                /\ err' = "flush"
    /\ UNCHANGED <<scan, tasks, byUid, procTotalLimit, fileTotal, fileMax,
                   filePerProcMax, ev, procStatus, failed>>

\* ---------------------------------------------------------- specifications

MainIdle ==
    /\ pc = "idle" /\ err = "" /\ scan = 0 /\ tasks = [pids |-> <<>>, total |-> 0]
    /\ byUid = [u \in Uids |-> 0]
    /\ procTotalLimit = 0 /\ fileTotal = 0 /\ fileMax = 0 /\ filePerProcMax = 0
    /\ ev = 0 /\ out = <<>> /\ nLines = 0 /\ stdout = <<>>
    /\ procStatus = [i \in {} |-> 0] /\ failed = {}

\* main after the flags are parsed, before TasksInit.
MainInit ==
    /\ pc = "TasksInit"
    /\ err = ""
    /\ scan = 1
    /\ tasks = [pids |-> <<>>, total |-> 0]
    /\ byUid = [u \in Uids |-> 0]
    /\ procTotalLimit = 0
    /\ fileTotal = 0
    /\ fileMax = 0
    /\ filePerProcMax = 0
    /\ ev = 1
    /\ out = <<>>
    /\ nLines \in NLinesValues
    /\ stdout = <<>>
    /\ procStatus = [p \in {Procs[i] : i \in 1 .. NumPids} |-> [uid |-> "", threads |-> 0]]
    /\ failed = {}

Init == MainInit /\ CalcIdle /\ CeilIdle

Next ==
    \/ (ScanPid /\ UNCHANGED <<calcVars, ceilVars>>)
    \/ (ProcTotalLimit /\ UNCHANGED <<calcVars, ceilVars>>)
    \/ (FileNr /\ UNCHANGED <<calcVars, ceilVars>>)
    \/ (FilePerProcMax /\ UNCHANGED <<calcVars, ceilVars>>)
    \/ (EvalPid /\ UNCHANGED <<calcVars, ceilVars>>)
    \/ (Report /\ UNCHANGED <<calcVars, ceilVars>>)

Spec == Init /\ [][Next]_vars

\* CalcBound on every metric sequence of the bounds.
InitCalc == MainIdle /\ CalcInit /\ CeilIdle

NextCalc ==
    \/ (CalcIter /\ UNCHANGED <<mainVars, ceilVars>>)
    \/ (CalcReturn /\ UNCHANGED <<mainVars, ceilVars>>)

\* main runs on its own goroutine and takes its next step whenever it has one.
FairSpec == Init /\ [][Next]_vars /\ WF_vars(Next)

SpecCalc == InitCalc /\ [][NextCalc]_vars

\* The effective ceilings on every combination of ceilings of the bounds.
InitCeil == MainIdle /\ CalcIdle /\ CeilInit

NextCeil ==
    \/ (ResolveFds /\ UNCHANGED <<mainVars, calcVars>>)
    \/ (ResolveNproc /\ UNCHANGED <<mainVars, calcVars>>)

SpecCeil == InitCeil /\ [][NextCeil]_vars

\* ------------------------------------------------------ claims on CalcBound

\* Indices of the iterations done so far.
Done == 1 .. Len(cps)

\* The index CalcBound's scan must hold after the iterations in Done: the
\* lowest one whose percentage no other percentage exceeds.
FirstMax(k) ==
    /\ k \in Done
    /\ \A j \in Done : ~FGt(cps[j], cps[k])
    /\ \A j \in Done : j < k => FGt(cps[k], cps[j])

\* C1: after any number of iterations on a non-empty sequence, the binding is
\* the metric at the lowest index among those whose percentage is the maximum
\* seen: a later metric takes over only with a strictly greater percentage,
\* so a tie keeps the earlier metric.
C1_FirstMaxWins ==
    Done # {} =>
        \E k \in Done :
            /\ FirstMax(k)
            /\ cb = [by |-> cm[k].name, v |-> cm[k].res.v, max |-> cm[k].res.max,
                     p |-> cps[k]]

\* C1, its case: two metrics tie at a positive percentage and the first wins.
C1_Witness ==
    /\ cst = "returned"
    /\ Len(cm) = 2
    /\ cps[1] = cps[2]
    /\ cps[1].m # 0
    /\ cm[1].res # cm[2].res
    /\ cb.by = "A"

C6_UnlimitedIsZero ==
    \A k \in Done : cm[k].res.max = MaxUint64 => cps[k] = FZero

\* C6 amended: a metric whose ceiling is the unlimited sentinel gets the
\* quotient like any positive ceiling: 0 when its value is 0, and otherwise a
\* percentage above 0 and at most 100.
C6_UnlimitedIsQuotient ==
    \A k \in Done :
        cm[k].res.max = MaxUint64 =>
            /\ cm[k].res.v = 0 => cps[k] = FZero
            /\ cm[k].res.v > 0 => (FGt(cps[k], FZero) /\ ~FGt(cps[k], F100))

\* C6, its case: a metric with a positive value and the sentinel as ceiling.
C6_Witness ==
    /\ cst = "returned"
    /\ \E k \in Done : cm[k].res.max = MaxUint64 /\ cm[k].res.v > 0

\* |p - 100 * v / c| <= (100 * v / c) * 2^(3 - MantBits): p is 100 * v / c up
\* to the four roundings of 100.0 * float64(v) / float64(c).
WithinTolerance(p, v, c) ==
    LET scale == IF p.e < 0 THEN Pow2(0 - p.e) ELSE 1
        pm    == IF p.e < 0 THEN p.m ELSE p.m * Pow2(p.e)
        diff  == pm * c - 100 * v * scale
        abs   == IF diff < 0 THEN 0 - diff ELSE diff
    IN ~p.neg /\ abs * Pow2(MantBits - 3) <= 100 * v * scale

Positive(k) == cm[k].res.v > 0 /\ cm[k].res.max > 0

\* C7 as stated: with value > 0 and ceiling > 0 the percentage is
\* 100 * value / ceiling, and for one ceiling a greater value always has a
\* strictly greater percentage.
C7_StrictlyIncreasing ==
    /\ \A k \in Done :
           Positive(k) => WithinTolerance(cps[k], cm[k].res.v, cm[k].res.max)
    /\ \A j, k \in Done :
           (/\ Positive(j) /\ Positive(k)
            /\ cm[j].res.max = cm[k].res.max
            /\ cm[j].res.v < cm[k].res.v) => FGt(cps[k], cps[j])

\* C7 amended: with value > 0 and ceiling > 0 the percentage is
\* 100 * value / ceiling up to the float roundings; for one ceiling a greater
\* value never has a smaller percentage, and has a strictly greater one when
\* it is at most ExactBelow (2^50 in the program).
C7_NonDecreasing ==
    /\ \A k \in Done :
           Positive(k) => WithinTolerance(cps[k], cm[k].res.v, cm[k].res.max)
    /\ \A j, k \in Done :
           (/\ Positive(j) /\ Positive(k)
            /\ cm[j].res.max = cm[k].res.max
            /\ cm[j].res.v < cm[k].res.v) =>
               /\ ~FGt(cps[j], cps[k])
               /\ cm[k].res.v <= ExactBelow => FGt(cps[k], cps[j])

\* C7, its case: two metrics with one ceiling and values one apart, the
\* greater exactly convertible, whose percentages differ.
C7_Witness ==
    /\ cst = "returned"
    /\ \E j, k \in Done :
           /\ Positive(j) /\ Positive(k)
           /\ cm[j].res.max = cm[k].res.max
           /\ cm[k].res.v = cm[j].res.v + 1
           /\ cm[k].res.v = ExactBelow
           /\ FGt(cps[k], cps[j])

\* C8 as stated: CalcBound on the empty sequence ends in an InvalidInput
\* error and returns no binding.
C8_EmptyIsInvalidInput ==
    (cm = <<>> /\ cst # "loop") => cst = "InvalidInput"

\* C8 amended: CalcBound on the empty sequence returns, without an error, the
\* Boundary with the empty name, value 0, ceiling 0 and percentage -1.0.
C8_EmptyReturnsNoBinding ==
    (cm = <<>> /\ cst # "loop") =>
        /\ cst = "returned"
        /\ cb = [by |-> "", v |-> 0, max |-> 0, p |-> FNeg1]

\* C8, its case: the call on the empty sequence has returned.
C8_Witness == cm = <<>> /\ cst = "returned"

\* ---------------------------------------- claims on the effective ceilings

CeilInputs == {lim.cur, lim.fileMax, lim.perProc}

\* C4: the nested min over (fd soft limit, file-max, nr_open) is an input
\* that no input is below, hence the minimum of the non-sentinel inputs when
\* there is one; every order and grouping of the inputs gives it; and it is
\* the sentinel exactly when every input is the sentinel.
C4_EffectiveCeiling ==
    lst # "start" =>
        /\ fdsMaxPerProc \in CeilInputs
        /\ \A x \in CeilInputs : fdsMaxPerProc <= x
        /\ \A x \in CeilInputs \ {MaxUint64} : fdsMaxPerProc # MaxUint64
        /\ (fdsMaxPerProc = MaxUint64) <=> (CeilInputs = {MaxUint64})
        /\ \A f \in Reorderings(3) :
              LET in == <<lim.cur, lim.fileMax, lim.perProc>>
                  a  == in[f[1]]
                  b  == in[f[2]]
                  c  == in[f[3]]
              IN /\ min(min(a, b), c) = fdsMaxPerProc
                 /\ min(a, min(b, c)) = fdsMaxPerProc

\* C4, its case: the soft limit is unlimited, nr_open is concrete and below
\* file-max, and the resolved ceiling is nr_open.
C4_Witness ==
    /\ lst = "resolved"
    /\ lim.cur = MaxUint64
    /\ lim.perProc # MaxUint64
    /\ lim.perProc < lim.fileMax
    /\ fdsMaxPerProc = lim.perProc

\* ---------------------------------------------------------- claims on main

\* The five metrics main hands to CalcBound for report o, in its order.
Candidates(o) == o.data \o Adds(o.data)

\* C2: the binding of every report has a percentage that no candidate metric
\* of its process exceeds (fds-rlim, nproc-rlim, threads-max, file-max,
\* file-perproc-max), and its name, value and ceiling are those of a
\* candidate with that percentage.
C2_BindingIsMaximum ==
    \A i \in 1 .. Len(out) :
        LET o == out[i]
            c == Candidates(o)
        IN /\ \A k \in 1 .. Len(c) : ~FGt(Percent(c[k].res), o.bound.p)
           /\ \E k \in 1 .. Len(c) :
                 /\ c[k].name = o.bound.by
                 /\ c[k].res.v = o.bound.v
                 /\ c[k].res.max = o.bound.max
                 /\ Percent(c[k].res) = o.bound.p

\* C2, its case: a report whose fd metric has a positive percentage under a
\* concrete limit and whose binding is the thread metric, with a greater one.
C2_Witness ==
    \E i \in 1 .. Len(out) :
        /\ out[i].bound.by = "threads-max"
        /\ out[i].data[1].res.v > 0
        /\ out[i].data[1].res.max \notin {0, MaxUint64}
        /\ FGt(out[i].bound.p, Percent(out[i].data[1].res))

\* The pids of the rows written.
PrintedPids == {stdout[k][1] : k \in 4 .. Len(stdout)}

ReportedPids == {out[i].pid : i \in 1 .. Len(out)}

\* C3 as stated: when the run is over, a pid one of whose per-process reads
\* failed has no report and no row, and every other pid of the scan has its
\* report.
C3_SkipAlways ==
    pc = "done" =>
        /\ \A pid \in failed : pid \notin ReportedPids /\ pid \notin PrintedPids
        /\ \A i \in 1 .. NumPids : Procs[i] \notin failed => Procs[i] \in ReportedPids

\* Where the glob of TasksInit lists pid.
ScanIndex(pid) == CHOOSE i \in 1 .. NumPids : Procs[i] = pid

\* C9 as stated: in the ranked reports, two reports with the same binding
\* percentage stand in the order of the scan.
C9_StableRanking ==
    pc = "done" =>
        \A i, j \in 1 .. Len(out) :
            (i < j /\ out[i].bound.p = out[j].bound.p) =>
                ScanIndex(out[i].pid) < ScanIndex(out[j].pid)

\* C10: in the ranked reports the binding percentage never increases from a
\* row to a later one.
C10_RankedDescending ==
    pc = "done" =>
        \A i, j \in 1 .. Len(out) :
            i < j => ~FGt(out[j].bound.p, out[i].bound.p)

\* C10, its case: the ranking moved a later pid of the scan, with the greater
\* percentage, before an earlier one.
C10_Witness ==
    /\ pc = "done"
    /\ Len(out) = 2
    /\ FGt(out[1].bound.p, out[2].bound.p)
    /\ ScanIndex(out[1].pid) > ScanIndex(out[2].pid)

\* The percentage a display clamp at 100 would print.
Clamp(p) == IF FGt(p, F100) THEN F100 ELSE p

\* The rows written (after the two summary lines and the header).
PrintedRows == SubSeq(stdout, 4, Len(stdout))

\* C11 as stated: the %USE cell of every row is the binding percentage
\* clamped at 100, while the rows stand in the order of the unclamped
\* percentage.
C11_DisplayClamped ==
    pc = "done" =>
        /\ \A i \in 1 .. Len(PrintedRows) :
               PrintedRows[i][9] = FormatF1(Clamp(out[i].bound.p))
        /\ \A i, j \in 1 .. Len(out) :
               i < j => ~FGt(out[j].bound.p, out[i].bound.p)

\* The failures of the system-wide reads.
CeilingErrors == {"threads-max", "file-nr", "nr_open"}

\* C12: once the read or the parse of a system-wide ceiling (threads-max,
\* file-nr, nr_open) has failed, the run is in the aborted state, and no
\* line, summary, header or row, has been written, nor any report built.
C12_CeilingFailureIsFatal ==
    err \in CeilingErrors => (pc = "panic" /\ stdout = <<>> /\ out = <<>>)

\* C12, its case: the scan retained a process and the read of nr_open, the
\* last of the three, failed.
C12_Witness ==
    /\ err = "nr_open"
    /\ pc = "panic"
    /\ tasks.pids # <<>>

\* C13: for a report whose fd count v is positive under an unlimited fd soft
\* limit, with a concrete nr_open M: the fifth candidate is file-perproc-max
\* with value v and ceiling M, its percentage is 100 * v / M, the binding
\* percentage is not below it, and the binding is neither fds-rlim nor any
\* metric whose ceiling is the sentinel.
C13_PerProcCeiling ==
    \A i \in 1 .. Len(out) :
        LET o  == out[i]
            fd == o.data[1].res
            c  == Candidates(o)
        IN (fd.v > 0 /\ fd.max = MaxUint64 /\ filePerProcMax \notin {0, MaxUint64}) =>
               /\ c[5] = [name |-> "file-perproc-max",
                          res  |-> [v |-> fd.v, max |-> filePerProcMax]]
               /\ WithinTolerance(Percent(c[5].res), fd.v, filePerProcMax)
               /\ ~FGt(Percent(c[5].res), o.bound.p)
               /\ o.bound.by # "fds-rlim"
               /\ o.bound.max # MaxUint64

\* C13, its case: such a report whose binding is file-perproc-max itself.
C13_Witness ==
    \E i \in 1 .. Len(out) :
        /\ out[i].data[1].res.v > 0
        /\ out[i].data[1].res.max = MaxUint64
        /\ out[i].bound = [by |-> "file-perproc-max", v |-> out[i].data[1].res.v,
                           max |-> filePerProcMax,
                           p |-> Percent([v |-> out[i].data[1].res.v, max |-> filePerProcMax])]

\* The smaller of two row counts.
Fewer(a, b) == IF a < b THEN a ELSE b

\* C14: no argument asks for 10 rows, "-1" and "-n -1" for the special value
\* -1, "-n N" for N; and the step that writes the table writes, for N >= 0,
\* exactly min(N, number of reports) rows, for -1 one row per report, and
\* always the first reports of the ranked order, one row each, in that order.
C14_RowCount ==
    [][ (pc = "Evaluate" /\ pc' = "done") =>
           /\ ParseArgs(<<>>) = 10
           /\ ParseArgs(<<"-1">>) = -1
           /\ ParseArgs(<<"-n", "-1">>) = -1
           /\ \A a \in ArgVectors :
                 (Len(a) = 2 /\ a[2] # "-1") => FormatInt(ParseArgs(a)) = a[2]
           /\ nLines \in NLinesValues
           /\ nLines >= 0 => Len(PrintedRows') = Fewer(nLines, Len(out'))
           /\ nLines = -1 => Len(PrintedRows') = Len(out')
           /\ \A i \in 1 .. Len(PrintedRows') : PrintedRows'[i] = Row(out'[i])
      ]_vars

\* C14, its case: a row count of 1 with two ranked reports, and one row.
C14_Witness ==
    /\ pc = "done"
    /\ nLines = 1
    /\ Len(out) = 2
    /\ Len(PrintedRows) = 1

\* The columns FD-RL, TSK-RL and MAX of a row.
CeilingColumns == {3, 5, 8}

\* C15: in every row written, the FD-RL and TSK-RL cells of a metric whose
\* ceiling is the sentinel hold "-1", and so would the MAX cell of a binding
\* with the sentinel as ceiling; no ceiling cell holds the sentinel's digits,
\* the MAX cell because no binding has the sentinel as its ceiling.
C15_UnlimitedMarker ==
    \A i \in 1 .. Len(PrintedRows) :
        LET row == PrintedRows[i]
            o   == out[i]
        IN /\ o.data[1].res.max = MaxUint64 => row[3] = "-1"
           /\ o.data[2].res.max = MaxUint64 => row[5] = "-1"
           /\ o.bound.max = MaxUint64 => row[8] = "-1"
           /\ \A k \in CeilingColumns : row[k] # FormatUint(MaxUint64)

\* C15, its case: a row of a process with a positive fd count whose fd and
\* task soft limits are both unlimited.
C15_Witness ==
    \E i \in 1 .. Len(PrintedRows) :
        /\ out[i].data[1].res = [v |-> MaxCount, max |-> MaxUint64]
        /\ out[i].data[2].res.max = MaxUint64
        /\ PrintedRows[i][3] = "-1"
        /\ PrintedRows[i][5] = "-1"

\* The thread counts, as their status files gave them to TasksInit, of the
\* tasks of ts owned by a uid of uids, summed as uint64.
RECURSIVE SumThreads(_, _)
SumThreads(ts, uids) ==
    IF ts = <<>> THEN 0
    ELSE LET st == procStatus[Head(ts).pid]
         IN AddUint64(IF st.uid \in uids THEN st.threads ELSE 0,
                      SumThreads(Tail(ts), uids))

\* The map holds, per uid, the threads of all retained processes of the uid,
\* and every nproc-rlim sample taken so far is the zero Entry of a failed
\* read or carries the map's value for the owner of its process.
AggregateComplete ==
    /\ \A u \in Uids : byUid[u] = SumThreads(tasks.pids, {u})
    /\ \A i \in 1 .. Len(out) :
          \/ out[i].data[2].res = [v |-> 0, max |-> 0]
          \/ out[i].data[2].res.v = byUid[procStatus[out[i].pid].uid]

\* C16: from the end of TasksInit on, the per-user map is complete (the sum
\* of the threads of every retained process of the user), every NprocRlim
\* evaluated reports that sum, so two processes of one user report the same
\* value, and no later step writes the map.
C16_AggregateBuiltOnce ==
    [][ /\ pc' # "TasksInit" => AggregateComplete'
        /\ pc # "TasksInit" => byUid' = byUid
      ]_vars

\* C16, its case: two processes of one user, both evaluated successfully,
\* both reporting the user's total, more than either's own thread count.
C16_Witness ==
    /\ pc = "done"
    /\ Len(out) = 2
    /\ procStatus[out[1].pid].uid = procStatus[out[2].pid].uid
    /\ out[1].data[2].res.max # 0
    /\ out[2].data[2].res.max # 0
    /\ out[1].data[2].res.v = out[2].data[2].res.v
    /\ out[1].data[2].res.v = procStatus[out[1].pid].threads + procStatus[out[2].pid].threads

\* C17 as stated: every metric handed to CalcBound has a non-zero ceiling (a
\* per-process ceiling that could not be obtained being the sentinel).
C17_CeilingsNonZero ==
    \A i \in 1 .. Len(out) :
        \A k \in 1 .. Len(Candidates(out[i])) : Candidates(out[i])[k].res.max # 0

\* The names of the metrics main hands to CalcBound.
CandidateNames ==
    {"fds-rlim", "nproc-rlim", "threads-max", "file-max", "file-perproc-max"}

\* C18 as stated: the binding's name is the name of a metric stored in the
\* data of the same report.
C18_DataHoldsCandidates ==
    \A i \in 1 .. Len(out) :
        /\ Len(out[i].data) = Len(Candidates(out[i]))
        /\ \E k \in 1 .. Len(out[i].data) : out[i].data[k].name = out[i].bound.by

\* C18 amended: the data of a report holds the two per-process metrics,
\* fds-rlim then nproc-rlim, and none of the three system-wide candidates;
\* the binding's name is one of the five candidate names, and the binding
\* carries the value and ceiling of that candidate itself.
C18_DataHoldsPerProcess ==
    \A i \in 1 .. Len(out) :
        LET o == out[i]
            c == Candidates(o)
        IN /\ Len(o.data) = 2
           /\ o.data[1].name = "fds-rlim"
           /\ o.data[2].name = "nproc-rlim"
           /\ {c[k].name : k \in 1 .. Len(c)} = CandidateNames
           /\ \E k \in 1 .. Len(c) :
                 /\ c[k].name = o.bound.by
                 /\ c[k].res = [v |-> o.bound.v, max |-> o.bound.max]

\* C18, its case: a report bound by a system-wide metric, which its data
\* does not hold.
C18_Witness ==
    \E i \in 1 .. Len(out) :
        /\ out[i].bound.by = "threads-max"
        /\ \A k \in 1 .. Len(out[i].data) : out[i].data[k].name # "threads-max"

\* The run is over: the table is flushed, or main has panicked.
Terminated == pc \in {"done", "panic"}

\* A pass of the evaluation loop takes the next task of TasksInit, appends
\* its report to the reports built so far and moves on by one.
EvalOnce ==
    (pc = "Evaluate" /\ pc' = "Evaluate") =>
        /\ ev' = ev + 1
        /\ out' = Append(out, out'[Len(out')])
        /\ out'[Len(out')].pid = tasks.pids[ev].pid
        /\ tasks' = tasks

\* Each retained task has exactly one report.
OneReportEach ==
    /\ Len(out) = Len(tasks.pids)
    /\ \A i \in 1 .. Len(tasks.pids) :
          Cardinality({k \in 1 .. Len(out) : out[k].pid = tasks.pids[i].pid}) = 1

\* C19: every run reaches the finished or the aborted state; every pass of
\* the evaluation loop handles the next retained task once and moves on; and
\* when the loop is left every retained task has exactly one report.
C19_Terminates ==
    /\ <>Terminated
    /\ [][EvalOnce]_vars
    /\ []((pc = "Evaluate" /\ ev > Len(tasks.pids)) \/ pc = "done" => OneReportEach)

\* C19, its case: a finished run that evaluated every task of a scan which
\* retained them all.
C19_Witness ==
    /\ pc = "done"
    /\ Len(tasks.pids) = NumPids
    /\ OneReportEach

\* The accounting of TasksInit: total, the sum of the map and the sum of the
\* thread counts of the retained tasks agree.
Accounted ==
    /\ tasks.total = SumThreads(tasks.pids, Uids)
    /\ \A u \in Uids : byUid[u] = SumThreads(tasks.pids, {u})
    /\ \A i \in 1 .. Len(tasks.pids) : procStatus[tasks.pids[i].pid].uid \in Uids

\* C20: after every iteration of the scan loop total equals the sum of the
\* map, which is the sum of the thread counts of the tasks appended; an
\* iteration that skips its pid leaves total, the map and pids as they were,
\* and any other appends exactly one task.
C20_TasksInitAccounting ==
    [][ pc = "TasksInit" =>
           /\ Accounted'
           /\ \/ (tasks' = tasks /\ byUid' = byUid /\ Procs[scan] \in failed')
              \/ /\ Len(tasks'.pids) = Len(tasks.pids) + 1
                 /\ tasks'.pids[Len(tasks'.pids)].pid = Procs[scan]
      ]_vars

\* C20, its case: the scan is over, it skipped one pid and retained one with
\* more than one thread.
C20_Witness ==
    /\ pc # "TasksInit"
    /\ Len(tasks.pids) = 1
    /\ tasks.total = MaxCount
    /\ tasks.total = procStatus[tasks.pids[1].pid].threads

\* How many times the report o stands in the sequence s.
Occurrences(s, o) == Cardinality({i \in 1 .. Len(s) : s[i] = o})

\* s is a prefix of t.
IsPrefix(s, t) == Len(s) <= Len(t) /\ \A i \in 1 .. Len(s) : s[i] = t[i]

\* C21: the step that ranks and prints leaves a permutation of the reports it
\* found: the same number of reports, and every report, with its pid, metrics,
\* binding and command name, as many times after the sort as before it; and
\* the rows written are the rows of a prefix of the ranked reports, in order.
C21_RankingPermutes ==
    [][ (pc = "Evaluate" /\ pc' \in {"done", "panic"}) =>
           /\ Len(out') = Len(out)
           /\ \A i \in 1 .. Len(out) :
                 Occurrences(out', out[i]) = Occurrences(out, out[i])
           /\ \A i \in 1 .. Len(out') :
                 Occurrences(out, out'[i]) = Occurrences(out', out'[i])
           /\ IsPrefix(PrintedRows', [i \in 1 .. Len(out') |-> Row(out'[i])])
      ]_vars

\* C21, its case: two reports, the sort moved the later one of the scan to the
\* front, and both rows were written.
C21_Witness ==
    /\ pc = "done"
    /\ Len(out) = 2
    /\ Len(PrintedRows) = 2
    /\ ScanIndex(out[1].pid) > ScanIndex(out[2].pid)
    /\ PrintedRows[1] = Row(out[1])
    /\ PrintedRows[2] = Row(out[2])

====
